---- MODULE Spec2Model ----
(***************************************************************************)
(* Mini-RAG: document chunking, the chunk store, the query-embedding cache, *)
(* top-k retrieval and the RAG pipeline of src/rag_core.py.                 *)
(*                                                                          *)
(* Strings are sequences of code points (naturals); 32 is the space and 10  *)
(* the newline.  Embedding vectors are short integer vectors and a score is *)
(* their dot product.                                                       *)
(***************************************************************************)
EXTENDS Integers, Sequences, FiniteSets, TLC

VARIABLES
    ckCalled, ckText, ckMax, ckOut,      \* the last chunk_text call: arguments and result
    cache,                               \* _query_embedding_cache, in insertion order
    inserted,                            \* history: every key ever inserted, in order
    lastCall,                            \* history: the last get_query_embedding call
    tableExists, rows, nextId,           \* rag_index.sqlite: the chunks table and its id counter
    run,                                 \* the number of the running process; 0 before the first
    idx,                                 \* the position of this process's index_documents call
    lastTopK,                            \* history: the last direct retrieve_top_k call
    lastRun,                             \* history: the last direct run_rag_pipeline call
    threads,                             \* the get_query_embedding call each thread is in
    tcalls,                              \* history: calls begun by the threads
    front                                \* the front end of this process: its mode, user_history
                                         \* and, as history, index_documents calls and handled turns

vars == <<ckCalled, ckText, ckMax, ckOut, cache, inserted, lastCall,
          tableExists, rows, nextId, run, idx, lastTopK, lastRun, threads, tcalls,
          front>>

chunkVars == <<ckCalled, ckText, ckMax, ckOut>>
cacheVars == <<cache, inserted, lastCall>>
storeVars == <<tableExists, rows, nextId>>
indexVars == <<run, idx>>
callVars == <<lastTopK, lastRun>>
concVars == <<threads, tcalls>>
frontVars == <<front>>

(***************************************************************************)
(* Bounds of the model.                                                     *)
(***************************************************************************)
\* chunk_text is checked on every text of at most MaxTextLen characters ...
MaxTextLen == 5
\* ... and every max_chars in 1..MaxChunkArg.
MaxChunkArg == 3
\* Insertions into the cache in one run of the cache specification.
MaxInserts == 103
\* Processes started one after the other over the same database file.
MaxRuns == 2
\* retrieve_top_k is called with every k in -MaxK..MaxK.
MaxK == 4
\* Threads that call get_query_embedding at the same time ...
NumThreads == 2
\* ... and the calls they begin in one run.
MaxThreadCalls == 2
\* /ask is handled until MaxHandled turns have been recorded, over all the users.
MaxHandled == 5

(***************************************************************************)
(* Program constants.                                                       *)
(***************************************************************************)
MAX_QUERY_CACHE_SIZE == 100

TOP_K == 3
\* the default max_chars of chunk_text
DEFAULT_MAX_CHARS == 500

SPACE == 32
NEWLINE == 10
DOT == 46

(***************************************************************************)
(* Python helpers.                                                          *)
(***************************************************************************)
Min(a, b) == IF a <= b THEN a ELSE b
Max(a, b) == IF a >= b THEN a ELSE b

\* s[a:b] for 0 <= a, 0 <= b
Slice(s, a, b) == SubSeq(s, a + 1, Min(b, Len(s)))

IsSpace(c) == c \in {SPACE, NEWLINE, 9, 13}

RECURSIVE LStrip(_)
LStrip(s) ==
    IF s # <<>> /\ IsSpace(Head(s)) THEN LStrip(Tail(s)) ELSE s

RECURSIVE RStrip(_)
RStrip(s) ==
    IF s # <<>> /\ IsSpace(s[Len(s)]) THEN RStrip(SubSeq(s, 1, Len(s) - 1)) ELSE s

\* str.strip()
Strip(s) == RStrip(LStrip(s))

RECURSIVE Concat(_)
Concat(ss) ==
    IF ss = <<>> THEN <<>> ELSE Head(ss) \o Concat(Tail(ss))

(***************************************************************************)
(* chunk_text (src/rag_core.py:125-132).                                    *)
(***************************************************************************)
RECURSIVE ChunkLoop(_, _, _, _)
ChunkLoop(text, max_chars, start, chunks) ==
    IF start < Len(text)
    THEN LET end == start + max_chars
         IN  ChunkLoop(text, max_chars, end, Append(chunks, Slice(text, start, end)))
    ELSE chunks

\* a chunker that starts each chunk on the last character of the previous one
RECURSIVE ChunkLoopOverlap(_, _, _, _)
ChunkLoopOverlap(text, max_chars, start, chunks) ==
    IF start < Len(text)
    THEN LET end == start + max_chars
         IN  ChunkLoopOverlap(text, max_chars, IF max_chars > 1 THEN end - 1 ELSE end,
                              Append(chunks, Slice(text, start, end)))
    ELSE chunks

chunk_text_overlap(text, max_chars) == ChunkLoopOverlap(text, max_chars, 0, <<>>)

chunk_text(text, max_chars) == ChunkLoop(text, max_chars, 0, <<>>)

RECURSIVE SeqsUpTo(_, _)
SeqsUpTo(alphabet, n) ==
    IF n = 0 THEN {<<>>}
    ELSE LET shorter == SeqsUpTo(alphabet, n - 1)
         IN  shorter \cup {Append(s, c) : s \in {t \in shorter : Len(t) = n - 1}, c \in alphabet}

\* the texts chunk_text is called on: two letters, so that order and content show
ChunkTexts == SeqsUpTo({97, 98}, MaxTextLen)

ChunkTextCall(text, max_chars) ==
    /\ ckCalled' = TRUE
    /\ ckText' = text
    /\ ckMax' = max_chars
    /\ ckOut' = chunk_text(text, max_chars)
    /\ UNCHANGED <<frontVars, cacheVars, storeVars, indexVars, callVars, concVars>>

(***************************************************************************)
(* The query-embedding cache (src/rag_core.py:23-25, 96-107).               *)
(***************************************************************************)
\* embed_model.encode: a fixed deterministic map from a text to a vector
EmbedModel(text) ==
    LET n == Len(text)
        h == IF n = 0 THEN 0 ELSE text[1] + text[n]
    IN  <<(n % 3) - 1, (h % 3) - 1>>

\* embed_text(texts): one vector per text, in order
embed_text(texts) == [i \in 1..Len(texts) |-> EmbedModel(texts[i])]

\* a dict is a sequence of [key, value] items in insertion order
DictKeys(d) == {d[i].key : i \in 1..Len(d)}
DictHas(d, k) == k \in DictKeys(d)
DictGet(d, k) ==
    LET i == CHOOSE j \in 1..Len(d) : d[j].key = k IN d[i].value
\* d[k] = v: a present key keeps its place
DictSet(d, k, v) ==
    IF DictHas(d, k)
    THEN [i \in 1..Len(d) |-> IF d[i].key = k THEN [key |-> k, value |-> v] ELSE d[i]]
    ELSE Append(d, [key |-> k, value |-> v])
\* next(iter(d))
DictFirstKey(d) == d[1].key
\* d.pop(k) for a present key
DictPop(d, k) == SelectSeq(d, LAMBDA it : it.key # k)

\* the outcome of one get_query_embedding call on cache c: the cache it leaves,
\* whether it raised, the vector it returned, whether it was a hit and the
\* arguments of its embed_text calls
CallResult(c, raised, value, hit, embedArgs) ==
    [cache |-> c, raised |-> raised, value |-> value, hit |-> hit, embedArgs |-> embedArgs]

NoVector == <<>>

\* a cache that never evicts
get_query_embedding_unbounded(c, query, embedOk) ==
    LET q == Strip(query)
    IN  IF DictHas(c, q) THEN CallResult(c, FALSE, DictGet(c, q), TRUE, <<>>)
        ELSE IF ~embedOk THEN CallResult(c, TRUE, NoVector, FALSE, << <<q>> >>)
        ELSE LET emb == embed_text(<<q>>)[1]
             IN  CallResult(DictSet(c, q, emb), FALSE, emb, FALSE, << <<q>> >>)

\* a cache that evicts the newest entry
get_query_embedding_lifo(c, query, embedOk) ==
    LET q == Strip(query)
    IN  IF DictHas(c, q) THEN CallResult(c, FALSE, DictGet(c, q), TRUE, <<>>)
        ELSE IF ~embedOk THEN CallResult(c, TRUE, NoVector, FALSE, << <<q>> >>)
        ELSE LET emb == embed_text(<<q>>)[1]
                 room == IF Len(c) >= MAX_QUERY_CACHE_SIZE
                         THEN DictPop(c, c[Len(c)].key)
                         ELSE c
             IN  CallResult(DictSet(room, q, emb), FALSE, emb, FALSE, << <<q>> >>)

\* get_query_embedding keyed by the query as given
get_query_embedding_rawkey(c, query, embedOk) ==
    LET q == query
    IN  IF DictHas(c, q) THEN CallResult(c, FALSE, DictGet(c, q), TRUE, <<>>)
        ELSE IF ~embedOk THEN CallResult(c, TRUE, NoVector, FALSE, << <<q>> >>)
        ELSE LET emb == embed_text(<<q>>)[1]
                 room == IF Len(c) >= MAX_QUERY_CACHE_SIZE
                         THEN DictPop(c, DictFirstKey(c))
                         ELSE c
             IN  CallResult(DictSet(room, q, emb), FALSE, emb, FALSE, << <<q>> >>)

\* get_query_embedding with a hit moving its key to the end of the dict
get_query_embedding_lru(c, query, embedOk) ==
    LET q == Strip(query)
    IN  IF DictHas(c, q)
        THEN CallResult(DictSet(DictPop(c, q), q, DictGet(c, q)), FALSE, DictGet(c, q), TRUE, <<>>)
        ELSE IF ~embedOk THEN CallResult(c, TRUE, NoVector, FALSE, << <<q>> >>)
        ELSE LET emb == embed_text(<<q>>)[1]
                 room == IF Len(c) >= MAX_QUERY_CACHE_SIZE
                         THEN DictPop(c, DictFirstKey(c))
                         ELSE c
             IN  CallResult(DictSet(room, q, emb), FALSE, emb, FALSE, << <<q>> >>)

\* get_query_embedding embedding the query as given, stored under the trimmed one
get_query_embedding_embeds_raw(c, query, embedOk) ==
    LET q == Strip(query)
    IN  IF DictHas(c, q) THEN CallResult(c, FALSE, DictGet(c, q), TRUE, <<>>)
        ELSE IF ~embedOk THEN CallResult(c, TRUE, NoVector, FALSE, << <<q>> >>)
        ELSE LET emb == embed_text(<<query>>)[1]
                 room == IF Len(c) >= MAX_QUERY_CACHE_SIZE
                         THEN DictPop(c, DictFirstKey(c))
                         ELSE c
             IN  CallResult(DictSet(room, q, emb), FALSE, emb, FALSE, << <<q>> >>)

\* get_query_embedding, run without interruption; embedOk: the embedder returns
get_query_embedding(c, query, embedOk) ==
    LET q == Strip(query)
    IN  IF DictHas(c, q) THEN CallResult(c, FALSE, DictGet(c, q), TRUE, <<>>)
        ELSE IF ~embedOk THEN CallResult(c, TRUE, NoVector, FALSE, << <<q>> >>)
        ELSE LET emb == embed_text(<<q>>)[1]
                 room == IF Len(c) >= MAX_QUERY_CACHE_SIZE
                         THEN DictPop(c, DictFirstKey(c))
                         ELSE c
             IN  CallResult(DictSet(room, q, emb), FALSE, emb, FALSE, << <<q>> >>)

NoCall == [called |-> FALSE, query |-> <<>>, raised |-> FALSE, value |-> NoVector,
           hit |-> FALSE, embedArgs |-> <<>>, before |-> <<>>]

\* the n-th query text never asked before
Key(n) == <<1000 + n>>

KeyIndex(k) == IF Len(k) = 1 /\ k[1] > 1000 THEN k[1] - 1000 ELSE 0

MaxIndex(keys) == IF keys = {} THEN 0 ELSE CHOOSE m \in keys : \A n \in keys : n <= m

FreshKey == Key(1 + MaxIndex({KeyIndex(inserted[i]) : i \in 1..Len(inserted)}))

\* the keys asked again: the oldest and the newest cached, and the last evicted
Evicted == {i \in 1..Len(inserted) : ~DictHas(cache, inserted[i])}
RepeatedKeys ==
    (IF cache = <<>> THEN {} ELSE {cache[1].key, cache[Len(cache)].key})
    \cup (IF Evicted = {} THEN {} ELSE {inserted[MaxIndex(Evicted)]})

\* a query is a key, bare or with surrounding whitespace
Padded(k) == {k, <<SPACE>> \o k, k \o <<SPACE, NEWLINE>>}

CacheQueries == UNION {Padded(k) : k \in {FreshKey} \cup RepeatedKeys}

GetQueryEmbeddingCall(query, embedOk) ==
    /\ Len(inserted) < MaxInserts
    /\ LET r == get_query_embedding(cache, query, embedOk)
           q == Strip(query)
       IN  /\ cache' = r.cache
           /\ inserted' = IF ~DictHas(cache, q) /\ DictHas(r.cache, q)
                          THEN Append(inserted, q) ELSE inserted
           /\ lastCall' = [called |-> TRUE, query |-> query, raised |-> r.raised,
                           value |-> r.value, hit |-> r.hit, embedArgs |-> r.embedArgs,
                           before |-> cache]
    /\ UNCHANGED <<chunkVars, frontVars, concVars, storeVars, indexVars, callVars>>

CacheNext == \E query \in CacheQueries, embedOk \in BOOLEAN : GetQueryEmbeddingCall(query, embedOk)

KeysOf(d) == [i \in 1..Len(d) |-> d[i].key]

\* the last n elements of s
LastN(s, n) == SubSeq(s, Len(s) - Min(n, Len(s)) + 1, Len(s))

(***************************************************************************)
(* get_query_embedding called from several threads (src/rag_core.py:96-107): *)
(* a thread can be pre-empted between any two of its dictionary operations. *)
(***************************************************************************)
Threads == 1..NumThreads

\* a thread's frame: where it is, its q, emb and the key it is about to pop;
\* evictedFrom is history, the size of the cache it popped from
ThreadIdle == [pc |-> "idle", q |-> <<>>, emb |-> NoVector, victim |-> <<>>, evictedFrom |-> 0]

\* the queries the threads ask: two new ones and the oldest cached one
ThreadQueries ==
    LET m == MaxIndex({KeyIndex(inserted[i]) : i \in 1..Len(inserted)})
    IN  {Key(m + 1), Key(m + 2)} \cup (IF cache = <<>> THEN {} ELSE {cache[1].key})

\* q = query.strip()
ThreadBegin(t, query) ==
    /\ threads[t].pc = "idle"
    /\ tcalls < MaxThreadCalls
    /\ tcalls' = tcalls + 1
    /\ threads' = [threads EXCEPT ![t] = [ThreadIdle EXCEPT !.pc = "test", !.q = Strip(query)]]
    /\ UNCHANGED <<chunkVars, frontVars, cacheVars, storeVars, indexVars, callVars>>

\* if q in _query_embedding_cache
ThreadTest(t) ==
    /\ threads[t].pc = "test"
    /\ threads' = [threads EXCEPT ![t].pc =
                      IF DictHas(cache, threads[t].q) THEN "read" ELSE "embed"]
    /\ UNCHANGED <<chunkVars, frontVars, cacheVars, storeVars, indexVars, callVars, tcalls>>

\* return _query_embedding_cache[q]: KeyError if q has been evicted meanwhile
ThreadRead(t) ==
    /\ threads[t].pc = "read"
    /\ threads' = [threads EXCEPT ![t].pc =
                      IF DictHas(cache, threads[t].q) THEN "returned" ELSE "KeyError"]
    /\ UNCHANGED <<chunkVars, frontVars, cacheVars, storeVars, indexVars, callVars, tcalls>>

\* emb = embed_text([q])[0]
ThreadEmbed(t, embedOk) ==
    /\ threads[t].pc = "embed"
    /\ threads' = IF embedOk
                  THEN [threads EXCEPT ![t].pc = "size",
                                       ![t].emb = embed_text(<<threads[t].q>>)[1]]
                  ELSE [threads EXCEPT ![t].pc = "raised"]
    /\ UNCHANGED <<chunkVars, frontVars, cacheVars, storeVars, indexVars, callVars, tcalls>>

\* if len(_query_embedding_cache) >= MAX_QUERY_CACHE_SIZE
ThreadSize(t) ==
    /\ threads[t].pc = "size"
    /\ threads' = [threads EXCEPT ![t].pc =
                      IF Len(cache) >= MAX_QUERY_CACHE_SIZE THEN "first" ELSE "store"]
    /\ UNCHANGED <<chunkVars, frontVars, cacheVars, storeVars, indexVars, callVars, tcalls>>

\* next(iter(_query_embedding_cache))
ThreadFirst(t) ==
    /\ threads[t].pc = "first"
    /\ threads' = IF cache = <<>>
                  THEN [threads EXCEPT ![t].pc = "StopIteration"]
                  ELSE [threads EXCEPT ![t].pc = "pop", ![t].victim = DictFirstKey(cache)]
    /\ UNCHANGED <<chunkVars, frontVars, cacheVars, storeVars, indexVars, callVars, tcalls>>

\* _query_embedding_cache.pop(key): KeyError if the key has been popped meanwhile
ThreadPop(t) ==
    /\ threads[t].pc = "pop"
    /\ IF DictHas(cache, threads[t].victim)
       THEN /\ cache' = DictPop(cache, threads[t].victim)
            /\ threads' = [threads EXCEPT ![t].pc = "store", ![t].evictedFrom = Len(cache)]
       ELSE /\ threads' = [threads EXCEPT ![t].pc = "KeyError"]
            /\ UNCHANGED cache
    /\ UNCHANGED <<chunkVars, frontVars, inserted, lastCall, storeVars, indexVars, callVars, tcalls>>

\* _query_embedding_cache[q] = emb; return emb
ThreadStore(t) ==
    /\ threads[t].pc = "store"
    /\ cache' = DictSet(cache, threads[t].q, threads[t].emb)
    /\ inserted' = IF DictHas(cache, threads[t].q) THEN inserted
                   ELSE Append(inserted, threads[t].q)
    /\ threads' = [threads EXCEPT ![t].pc = "returned"]
    /\ UNCHANGED <<chunkVars, frontVars, lastCall, storeVars, indexVars, callVars, tcalls>>

\* the call is over: it returned or an exception left it
ThreadEnd(t) ==
    /\ threads[t].pc \in {"returned", "raised", "KeyError", "StopIteration"}
    /\ threads' = [threads EXCEPT ![t] = ThreadIdle]
    /\ UNCHANGED <<chunkVars, frontVars, cacheVars, storeVars, indexVars, callVars, tcalls>>

\* a new query answered while no other call is in progress, before the threads
\* begin to call at the same time
WarmUp ==
    /\ tcalls = 0
    /\ GetQueryEmbeddingCall(FreshKey, TRUE)

ThreadNext ==
    \/ WarmUp
    \/ \E t \in Threads :
          \/ \E query \in ThreadQueries : ThreadBegin(t, query)
          \/ ThreadTest(t)
          \/ ThreadRead(t)
          \/ \E embedOk \in BOOLEAN : ThreadEmbed(t, embedOk)
          \/ ThreadSize(t)
          \/ ThreadFirst(t)
          \/ ThreadPop(t)
          \/ ThreadStore(t)
          \/ ThreadEnd(t)

(***************************************************************************)
(* The chunk store (src/rag_core.py:31-82).                                 *)
(***************************************************************************)
\* json.dumps(embedding.tolist()) and np.array(json.loads(emb_json))
JsonDumps(vec) == [json |-> vec]
JsonLoads(text) == text.json

\* DELETE FROM chunks that leaves the rows in place
clear_db_keeps(rs) == rs

\* clear_db: DELETE FROM chunks
clear_db(rs) == <<>>

\* insert_chunk: one row under the next AUTOINCREMENT id; writtenBy is history,
\* the process whose index run wrote the row
insert_chunk(rs, id, doc_name, text, embedding, writer) ==
    Append(rs, [id |-> id, doc_name |-> doc_name, chunk_text |-> text,
                embedding |-> JsonDumps(embedding), writtenBy |-> writer])

\* load_all_chunks: (id, doc_name, chunk_text, emb) per row, in rowid order
load_all_chunks(rs) ==
    [i \in 1..Len(rs) |-> [id |-> rs[i].id, doc_name |-> rs[i].doc_name,
                           chunk_text |-> rs[i].chunk_text,
                           emb |-> JsonLoads(rs[i].embedding)]]

(***************************************************************************)
(* The documents directory.                                                 *)
(***************************************************************************)
Repeat(c, n) == [i \in 1..n |-> c]

\* a directory entry: its name, whether it is a regular file, whether its
\* bytes decode as UTF-8, and its text
Entry(name, isFile, decodable, text) ==
    [name |-> name, isFile |-> isFile, decodable |-> decodable, text |-> text]

\* "a.txt": hello world
FileA == Entry(<<97, DOT, 116, 120, 116>>, TRUE, TRUE,
               <<104, 101, 108, 108, 111, SPACE, 119, 111, 114, 108, 100>>)
\* "b.md": 501 characters, a newline among them
FileB == Entry(<<98, DOT, 109, 100>>, TRUE, TRUE,
               Repeat(98, 249) \o <<NEWLINE>> \o Repeat(98, 250) \o <<99>>)
\* "c.txt": an empty file
FileC == Entry(<<99, DOT, 116, 120, 116>>, TRUE, TRUE, <<>>)
\* "d.pdf": not an indexed extension
FileD == Entry(<<100, DOT, 112, 100, 102>>, TRUE, TRUE, <<100, 100>>)
\* "e.txt": bytes that are not UTF-8
FileE == Entry(<<101, DOT, 116, 120, 116>>, TRUE, FALSE, <<>>)
\* "f.txt": 1000 times the same character, two equal chunks
FileF == Entry(<<102, DOT, 116, 120, 116>>, TRUE, TRUE, Repeat(102, 2 * DEFAULT_MAX_CHARS))
\* "g.txt": 107 characters, a newline among them; 120 with the header
FileG == Entry(<<103, DOT, 116, 120, 116>>, TRUE, TRUE,
               Repeat(103, 50) \o <<NEWLINE>> \o Repeat(103, 56))
\* "h.md": 109 characters; 121 with the header
FileH == Entry(<<104, DOT, 109, 100>>, TRUE, TRUE, Repeat(104, 108) \o <<105>>)
\* "s.md": a sub-directory
DirS == Entry(<<115, DOT, 109, 100>>, FALSE, TRUE, <<>>)

\* the entries a docs folder is made of
Catalogue == {FileA, FileB, FileC, FileD, FileE, FileF, FileG, FileH, DirS}
PathOf(name) == CHOOSE e \in Catalogue : e.name = name

\* what docs_path.glob("*") can yield: the names, in the order it yields them
DirListings ==
    { <<>>,
      <<FileA.name>>,
      <<FileA.name, FileB.name>>,
      <<FileB.name, FileF.name>>,
      <<FileC.name, FileD.name, DirS.name>>,
      <<FileG.name, FileH.name>>,
      <<FileA.name, FileE.name, FileB.name>> }

RECURSIVE LastDot(_)
LastDot(name) ==
    IF name = <<>> THEN 0
    ELSE IF name[Len(name)] = DOT THEN Len(name)
    ELSE LastDot(SubSeq(name, 1, Len(name) - 1))

\* Path.suffix
Suffix(name) ==
    LET i == LastDot(name)
    IN  IF i <= 1 \/ i = Len(name) THEN <<>> ELSE SubSeq(name, i, Len(name))

\* [".txt", ".md"]
IndexedSuffixes == { <<DOT, 116, 120, 116>>, <<DOT, 109, 100>> }

\* f"[DOC: {doc_name}]\n{c}"
Header(doc_name) == <<91, 68, 79, 67, 58, SPACE>> \o doc_name \o <<93, NEWLINE>>
\* the header prefixed twice
WithHeaderTwice(doc_name, c) == Header(doc_name) \o Header(doc_name) \o c

WithHeader(doc_name, c) == Header(doc_name) \o c

(***************************************************************************)
(* Retrieval (src/rag_core.py:92-119).                                      *)
(***************************************************************************)
\* cosine_sim: the dot product
RECURSIVE Dot(_, _)
Dot(a, b) ==
    IF a = <<>> \/ b = <<>> THEN 0 ELSE Head(a) * Head(b) + Dot(Tail(a), Tail(b))
cosine_sim(a, b) == Dot(a, b)

\* list.sort(key=score, reverse=True): stable, equal scores keep their order
RECURSIVE InsertByScore(_, _)
InsertByScore(sorted, x) ==
    IF sorted = <<>> THEN <<x>>
    ELSE IF Head(sorted).score >= x.score
         THEN <<Head(sorted)>> \o InsertByScore(Tail(sorted), x)
         ELSE <<x>> \o sorted

RECURSIVE SortByScoreDesc(_)
SortByScoreDesc(scored) ==
    IF scored = <<>> THEN <<>>
    ELSE InsertByScore(SortByScoreDesc(SubSeq(scored, 1, Len(scored) - 1)),
                       scored[Len(scored)])

\* s[:k] for any integer k
SliceTo(s, k) ==
    IF k >= 0 THEN SubSeq(s, 1, Min(k, Len(s)))
    ELSE SubSeq(s, 1, Max(Len(s) + k, 0))

\* the scored list of retrieve_top_k before the sort
Scored(query_vec, chunks) ==
    [i \in 1..Len(chunks) |-> [score |-> cosine_sim(query_vec, chunks[i].emb),
                               doc_name |-> chunks[i].doc_name,
                               chunk_text |-> chunks[i].chunk_text]]

RetrievalResult(c, raised, result, embedArgs) ==
    [cache |-> c, raised |-> raised, result |-> result, embedArgs |-> embedArgs]

\* a retrieve_top_k that returns the first k chunks in storage order
retrieve_top_k_unsorted(c, rs, exists, query, k, embedOk, readOk) ==
    LET e == get_query_embedding(c, query, embedOk)
    IN  IF e.raised THEN RetrievalResult(e.cache, TRUE, <<>>, e.embedArgs)
        ELSE IF ~exists \/ ~readOk THEN RetrievalResult(e.cache, TRUE, <<>>, e.embedArgs)
        ELSE RetrievalResult(e.cache, FALSE,
                             SliceTo(Scored(e.value, load_all_chunks(rs)), k), e.embedArgs)

\* a sort that puts an entry before the entries of the same score
RECURSIVE InsertBeforeEqual(_, _)
InsertBeforeEqual(sorted, x) ==
    IF sorted = <<>> THEN <<x>>
    ELSE IF Head(sorted).score > x.score
         THEN <<Head(sorted)>> \o InsertBeforeEqual(Tail(sorted), x)
         ELSE <<x>> \o sorted

RECURSIVE SortTiesReversed(_)
SortTiesReversed(scored) ==
    IF scored = <<>> THEN <<>>
    ELSE InsertBeforeEqual(SortTiesReversed(SubSeq(scored, 1, Len(scored) - 1)),
                           scored[Len(scored)])

\* a retrieve_top_k whose sort does not keep the order of equal scores
retrieve_top_k_ties_reversed(c, rs, exists, query, k, embedOk, readOk) ==
    LET e == get_query_embedding(c, query, embedOk)
    IN  IF e.raised THEN RetrievalResult(e.cache, TRUE, <<>>, e.embedArgs)
        ELSE IF ~exists \/ ~readOk THEN RetrievalResult(e.cache, TRUE, <<>>, e.embedArgs)
        ELSE RetrievalResult(e.cache, FALSE,
                             SliceTo(SortTiesReversed(Scored(e.value, load_all_chunks(rs))), k),
                             e.embedArgs)

\* retrieve_top_k(query, k) on cache c and table rows rs; exists: the chunks
\* table exists; embedOk, readOk: the embedder and the sqlite read return
retrieve_top_k(c, rs, exists, query, k, embedOk, readOk) ==
    LET e == get_query_embedding(c, query, embedOk)
    IN  IF e.raised THEN RetrievalResult(e.cache, TRUE, <<>>, e.embedArgs)
        ELSE IF ~exists \/ ~readOk THEN RetrievalResult(e.cache, TRUE, <<>>, e.embedArgs)
        ELSE RetrievalResult(e.cache, FALSE,
                             SliceTo(SortByScoreDesc(Scored(e.value, load_all_chunks(rs))), k),
                             e.embedArgs)

NoTopK == [called |-> FALSE, query |-> <<>>, k |-> 0, raised |-> FALSE, result |-> <<>>]

(***************************************************************************)
(* The RAG pipeline (src/rag_core.py:166-224).                              *)
(***************************************************************************)
\* "I have no documents indexed yet. Check your docs/ folder."
NoDocumentsMessage ==
    <<73, 32, 104, 97, 118, 101, 32, 110, 111, 32, 100, 111, 99, 117, 109, 101, 110, 116,
      115, 32, 105, 110, 100, 101, 120, 101, 100, 32, 121, 101, 116, 46, 32, 67, 104, 101,
      99, 107, 32, 121, 111, 117, 114, 32, 100, 111, 99, 115, 47, 32, 102, 111, 108, 100,
      101, 114, 46>>

\* "Error calling LLM. Check server logs/config."
LlmErrorMessage ==
    <<69, 114, 114, 111, 114, 32, 99, 97, 108, 108, 105, 110, 103, 32, 76, 76, 77, 46, 32,
      67, 104, 101, 99, 107, 32, 115, 101, 114, 118, 101, 114, 32, 108, 111, 103, 115, 47,
      99, 111, 110, 102, 105, 103, 46>>

\* f"{score:.3f}" of a whole-number score
FormatScore(score) ==
    (IF score < 0 THEN <<45>> ELSE <<>>)
    \o <<48 + (IF score < 0 THEN 0 - score ELSE score)>> \o <<DOT, 48, 48, 48>>

\* chunk_text.replace("\n", " ")
ReplaceNewlines(text) == [i \in 1..Len(text) |-> IF text[i] = NEWLINE THEN SPACE ELSE text[i]]

SNIPPET_CHARS == 120

\* the snippet cut as soon as it has 120 characters
SnippetFrom120(text) ==
    LET snippet == ReplaceNewlines(text)
    IN  IF Len(snippet) >= SNIPPET_CHARS
        THEN Slice(snippet, 0, SNIPPET_CHARS) \o <<DOT, DOT, DOT>>
        ELSE snippet

\* (snippet[:120] + "...") if len(snippet) > 120 else snippet
Snippet(text) ==
    LET snippet == ReplaceNewlines(text)
    IN  IF Len(snippet) > SNIPPET_CHARS
        THEN Slice(snippet, 0, SNIPPET_CHARS) \o <<DOT, DOT, DOT>>
        ELSE snippet

\* f"- {doc_name} (score={score:.3f}) → \"{snippet}\""
SourceLine(chunk) ==
    <<45, 32>> \o chunk.doc_name \o <<32, 40, 115, 99, 111, 114, 101, 61>>
    \o FormatScore(chunk.score) \o <<41, 32, 8594, 32, 34>> \o Snippet(chunk.chunk_text)
    \o <<34>>

\* what openai.ChatCompletion.create does: it returns a content or it raises
LlmReplies ==
    { [ok |-> TRUE, content |-> <<72, 105>>],
      [ok |-> TRUE, content |-> <<SPACE, 72, 105, NEWLINE>>],
      [ok |-> FALSE, content |-> <<>>] }

\* call_llm returning the completion's content as received
call_llm_raw(llm) == [raised |-> ~llm.ok, value |-> llm.content]

\* call_llm: the completion's content, stripped
call_llm(llm) == [raised |-> ~llm.ok, value |-> Strip(llm.content)]

PipelineResult(c, raised, answer, sources_lines, top_chunks, llmCalls, embedArgs) ==
    [cache |-> c, raised |-> raised, answer |-> answer, sources_lines |-> sources_lines,
     top_chunks |-> top_chunks, llmCalls |-> llmCalls, embedArgs |-> embedArgs]

\* a pipeline that lets the LLM's exception escape
run_rag_pipeline_uncaught(c, rs, exists, query, embedOk, readOk, llm) ==
    LET t == retrieve_top_k(c, rs, exists, query, TOP_K, embedOk, readOk)
        sources_lines == [i \in 1..Len(t.result) |-> SourceLine(t.result[i])]
        answer == call_llm(llm)
    IN  IF t.raised
        THEN PipelineResult(t.cache, TRUE, <<>>, <<>>, <<>>, 0, t.embedArgs)
        ELSE IF t.result = <<>>
        THEN PipelineResult(t.cache, FALSE, NoDocumentsMessage, <<>>, <<>>, 0, t.embedArgs)
        ELSE IF answer.raised
        THEN PipelineResult(t.cache, TRUE, <<>>, <<>>, t.result, 1, t.embedArgs)
        ELSE PipelineResult(t.cache, FALSE, answer.value, sources_lines, t.result, 1,
                            t.embedArgs)

\* a pipeline without the empty-retrieval short cut
run_rag_pipeline_always_llm(c, rs, exists, query, embedOk, readOk, llm) ==
    LET t == retrieve_top_k(c, rs, exists, query, TOP_K, embedOk, readOk)
        sources_lines == [i \in 1..Len(t.result) |-> SourceLine(t.result[i])]
        answer == call_llm(llm)
    IN  IF t.raised
        THEN PipelineResult(t.cache, TRUE, <<>>, <<>>, <<>>, 0, t.embedArgs)
        ELSE IF answer.raised
        THEN PipelineResult(t.cache, FALSE, LlmErrorMessage, <<>>, t.result, 1, t.embedArgs)
        ELSE PipelineResult(t.cache, FALSE, answer.value, sources_lines, t.result, 1,
                            t.embedArgs)

\* run_rag_pipeline(query); raised: an exception escapes the call
run_rag_pipeline(c, rs, exists, query, embedOk, readOk, llm) ==
    LET t == retrieve_top_k(c, rs, exists, query, TOP_K, embedOk, readOk)
        sources_lines == [i \in 1..Len(t.result) |-> SourceLine(t.result[i])]
        answer == call_llm(llm)
    IN  IF t.raised
        THEN PipelineResult(t.cache, TRUE, <<>>, <<>>, <<>>, 0, t.embedArgs)
        ELSE IF t.result = <<>>
        THEN PipelineResult(t.cache, FALSE, NoDocumentsMessage, <<>>, <<>>, 0, t.embedArgs)
        ELSE IF answer.raised
        THEN PipelineResult(t.cache, FALSE, LlmErrorMessage, <<>>, t.result, 1, t.embedArgs)
        ELSE PipelineResult(t.cache, FALSE, answer.value, sources_lines, t.result, 1,
                            t.embedArgs)

NoRun == [called |-> FALSE, query |-> <<>>, raised |-> FALSE, answer |-> <<>>,
          sources_lines |-> <<>>, top_chunks |-> <<>>, llmCalls |-> 0, llm |-> "none",
          content |-> <<>>, fault |-> "none"]

(***************************************************************************)
(* index_documents (src/rag_core.py:135-160), one database commit a step.   *)
(***************************************************************************)
(***************************************************************************)
(* The front ends (src/main.py, src/telegram_bot.py, src/gradio_ui.py).     *)
(***************************************************************************)
\* main(): the mode the process runs in
Modes == {"telegram", "gradio"}

\* the Telegram users who write to the bot
Users == {1, 2}

\* deque(maxlen=3)
HISTORY_MAXLEN == 3

\* the functions that call index_documents, if the /ask handler and rag_answer did too
IndexCallersAndHandlers == {"on_startup", "launch_gradio_ui", "ask", "rag_answer"}

\* the functions that call index_documents
IndexCallers == {"on_startup", "launch_gradio_ui"}

\* the index_documents calls one execution of function f makes
CallsTo(f) == IF f \in IndexCallers THEN 1 ELSE 0

\* the function that main() runs before the process serves: post_init's
\* on_startup in telegram mode, launch_gradio_ui in gradio mode
StartupOf(mode) == IF mode = "telegram" THEN "on_startup" ELSE "launch_gradio_ui"

\* user_history[user_id].append(turn) on a deque that keeps every turn
HistoryAppendUnbounded(history, turn) == Append(history, turn)

\* user_history[user_id].append(turn) on a deque(maxlen=3)
HistoryAppend(history, turn) ==
    IF Len(history) >= HISTORY_MAXLEN
    THEN Append(Tail(history), turn)
    ELSE Append(history, turn)

\* a process that has not started: user_history is empty (a user without an
\* entry has no turn); indexCalls and handled are history, the index_documents
\* calls made by this process and the turns whose /ask handler completed
FrontIdle == [mode |-> "none", indexCalls |-> 0,
              user_history |-> [u \in Users |-> <<>>],
              handled |-> [u \in Users |-> <<>>]]

\* the state index_documents is left in when the docs folder is missing, if it raised
MissingDirRaises == "failed"

\* the state index_documents is left in when the docs folder is missing: it returns
MissingDirPc == "done"

IdxIdle == [pc |-> "idle", dirExists |-> TRUE, listing |-> <<>>, files |-> <<>>,
            pending |-> <<>>, doc |-> <<>>, hadRows |-> 0, embedCalls |-> <<>>]

Init ==
    /\ ckCalled = FALSE
    /\ ckText = <<>>
    /\ ckMax = 1
    /\ ckOut = <<>>
    /\ cache = <<>>
    /\ inserted = <<>>
    /\ lastCall = NoCall
    /\ tableExists = FALSE
    /\ rows = <<>>
    /\ nextId = 1
    /\ run = 0
    /\ idx = IdxIdle
    /\ lastTopK = NoTopK
    /\ lastRun = NoRun
    /\ threads = [t \in Threads |-> ThreadIdle]
    /\ tcalls = 0
    /\ front = FrontIdle

\* main(): a process starts (the first, or the next after the last one ended or
\* died in index_documents) in one of the modes, with an empty cache and empty
\* histories, and calls index_documents before it serves anything
StartProcess ==
    /\ run < MaxRuns
    /\ idx.pc \in {"idle", "done", "failed"}
    /\ run' = run + 1
    /\ idx' = [IdxIdle EXCEPT !.pc = "init_db"]
    /\ cache' = <<>>
    /\ inserted' = <<>>
    /\ lastCall' = NoCall
    /\ lastTopK' = NoTopK
    /\ lastRun' = NoRun
    /\ \E mode \in Modes :
          front' = [FrontIdle EXCEPT !.mode = mode, !.indexCalls = CallsTo(StartupOf(mode))]
    /\ UNCHANGED <<chunkVars, concVars, storeVars>>

\* init_db(): CREATE TABLE IF NOT EXISTS
IndexInitDb ==
    /\ idx.pc = "init_db"
    /\ tableExists' = TRUE
    /\ idx' = [idx EXCEPT !.pc = "clear_db"]
    /\ UNCHANGED <<chunkVars, frontVars, concVars, cacheVars, callVars, rows, nextId, run>>

\* clear_db()
IndexClearDb ==
    /\ idx.pc = "clear_db"
    /\ rows' = clear_db(rows)
    /\ idx' = [idx EXCEPT !.pc = "exists", !.hadRows = Len(rows)]
    /\ UNCHANGED <<chunkVars, frontVars, concVars, cacheVars, callVars, tableExists, nextId, run>>

\* docs_path.exists(), and on a folder that exists the glob
IndexCheckDir(dirExists, listing) ==
    /\ idx.pc = "exists"
    /\ idx' = IF dirExists
              THEN [idx EXCEPT !.pc = "loop", !.listing = listing, !.files = listing]
              ELSE [idx EXCEPT !.pc = MissingDirPc, !.dirExists = FALSE]
    /\ UNCHANGED <<chunkVars, frontVars, concVars, cacheVars, callVars, storeVars, run>>

\* one iteration of the loop over the paths, up to the embeddings of the
\* document's chunks; the rows to insert are left pending
IndexFile(embedOk) ==
    /\ idx.pc = "loop" /\ idx.pending = <<>> /\ idx.files # <<>>
    /\ LET path == PathOf(Head(idx.files))
           rest == Tail(idx.files)
       IN  IF ~path.isFile \/ Suffix(path.name) \notin IndexedSuffixes
           THEN idx' = [idx EXCEPT !.files = rest]
           ELSE IF ~path.decodable
           THEN idx' = [idx EXCEPT !.pc = "failed"]
           ELSE LET raw_chunks == chunk_text(path.text, DEFAULT_MAX_CHARS)
                    chunks_with_header ==
                        [i \in 1..Len(raw_chunks) |-> WithHeader(path.name, raw_chunks[i])]
                    embeddings == embed_text(chunks_with_header)
                    called == Append(idx.embedCalls,
                                     [i \in 1..Len(raw_chunks) |-> Len(chunks_with_header[i])])
                IN  IF ~embedOk
                    THEN idx' = [idx EXCEPT !.pc = "failed", !.embedCalls = called]
                    ELSE idx' = [idx EXCEPT
                                   !.files = rest,
                                   !.doc = path.name,
                                   !.embedCalls = called,
                                   !.pending = [i \in 1..Len(raw_chunks) |->
                                                  [text |-> chunks_with_header[i],
                                                   emb |-> embeddings[i]]]]
    /\ UNCHANGED <<chunkVars, frontVars, concVars, cacheVars, callVars, storeVars, run>>

\* insert_chunk(doc_name, chunk_text_str, emb_vec) for the next pending row
IndexInsert(insertOk) ==
    /\ idx.pc = "loop" /\ idx.pending # <<>>
    /\ IF insertOk
       THEN /\ rows' = insert_chunk(rows, nextId, idx.doc, Head(idx.pending).text,
                                    Head(idx.pending).emb, run)
            /\ nextId' = nextId + 1
            /\ idx' = [idx EXCEPT !.pending = Tail(idx.pending)]
       ELSE /\ idx' = [idx EXCEPT !.pc = "failed"]
            /\ UNCHANGED <<rows, nextId>>
    /\ UNCHANGED <<chunkVars, frontVars, concVars, cacheVars, callVars, tableExists, run>>

\* the loop is over: "Indexing done."
IndexDone ==
    /\ idx.pc = "loop" /\ idx.pending = <<>> /\ idx.files = <<>>
    /\ idx' = [idx EXCEPT !.pc = "done"]
    /\ UNCHANGED <<chunkVars, frontVars, concVars, cacheVars, callVars, storeVars, run>>

\* the queries asked: "who", also with surrounding whitespace, and "hello"
Queries == { <<119, 104, 111>>, <<SPACE, 119, 104, 111, NEWLINE>>, <<104, 101, 108, 108, 111>> }

\* what the environment does to a call: nothing, or the embedder raises, or the
\* sqlite read raises
Faults == {"none", "embedder", "sqlite"}

\* what a call inside this process does to the cache and its history
CacheAfter(query, c) ==
    /\ cache' = c
    /\ inserted' = IF ~DictHas(cache, Strip(query)) /\ DictHas(c, Strip(query))
                   THEN Append(inserted, Strip(query)) ELSE inserted
    /\ UNCHANGED lastCall

\* the process serves queries once its index_documents call has returned
Serving == idx.pc = "done"

\* a direct retrieve_top_k(query, k) call; the chunks table is not written
\* while the process serves, so the call read the rows the state holds
RetrieveTopKCall(query, k, fault) ==
    /\ Serving
    /\ LET t == retrieve_top_k(cache, rows, tableExists, query, k,
                               fault # "embedder", fault # "sqlite")
       IN  /\ CacheAfter(query, t.cache)
           /\ lastTopK' = [called |-> TRUE, query |-> query, k |-> k, raised |-> t.raised,
                           result |-> t.result]
    /\ UNCHANGED <<chunkVars, frontVars, concVars, storeVars, indexVars, lastRun>>

\* a run_rag_pipeline(query) call from a front end
RunRagPipeline(query, fault, llm) ==
    /\ Serving
    /\ LET r == run_rag_pipeline(cache, rows, tableExists, query,
                                 fault # "embedder", fault # "sqlite", llm)
       IN  /\ CacheAfter(query, r.cache)
           /\ lastRun' = [called |-> TRUE, query |-> query, raised |-> r.raised,
                          answer |-> r.answer, sources_lines |-> r.sources_lines,
                          top_chunks |-> r.top_chunks, llmCalls |-> r.llmCalls,
                          llm |-> IF llm.ok THEN "ok" ELSE "raises",
                          content |-> llm.content, fault |-> fault]
    /\ UNCHANGED <<chunkVars, frontVars, concVars, storeVars, indexVars, lastTopK>>

RECURSIVE Join(_)
\* " ".join(args)
Join(args) ==
    IF args = <<>> THEN <<>>
    ELSE IF Len(args) = 1 THEN args[1]
    ELSE args[1] \o <<SPACE>> \o Join(Tail(args))

\* str.lower() on the letters A-Z
Lower(text) == [i \in 1..Len(text) |-> IF text[i] >= 65 /\ text[i] <= 90 THEN text[i] + 32
                                        ELSE text[i]]

\* the words after /ask: none, "who", "who hello"
AskArgs == { <<>>, << <<119, 104, 111>> >>, << <<119, 104, 111>>, <<104, 101, 108, 108, 111>> >> }

\* what can fail while /ask is handled: what can fail in a call, or the reply
\* to Telegram
AskFaults == Faults \cup {"telegram"}

\* the number of turns whose handler completed, over all the users
TotalHandled == Cardinality({ut \in Users \X (1..MaxHandled) : ut[2] <= Len(front.handled[ut[1]])})

\* the /ask handler (telegram mode), from the update to the append to the
\* user's history; an exception that leaves run_rag_pipeline or reply_text
\* ends the handler before the append
Ask(user, args, fault, llm) ==
    /\ Serving
    /\ front.mode = "telegram"
    /\ TotalHandled < MaxHandled
    /\ IF args = <<>>
       THEN UNCHANGED <<cacheVars, front>>
       ELSE LET query == Strip(Join(args))
                r == run_rag_pipeline(cache, rows, tableExists, query,
                                      fault # "embedder", fault # "sqlite", llm)
                completed == ~r.raised /\ fault # "telegram"
            IN  /\ CacheAfter(query, r.cache)
                /\ front' = [front EXCEPT
                               !.indexCalls = @ + CallsTo("ask"),
                               !.user_history[user] =
                                   IF completed THEN HistoryAppend(@, <<query, r.answer>>) ELSE @,
                               !.handled[user] =
                                   IF completed THEN Append(@, <<query, r.answer>>) ELSE @]
    /\ UNCHANGED <<chunkVars, concVars, storeVars, indexVars, callVars>>

\* the texts typed in the Gradio textbox: the queries, blanks, "/HELP", "image"
GradioInputs ==
    Queries \cup { <<SPACE, NEWLINE>>, <<47, 72, 69, 76, 80>>, <<105, 109, 97, 103, 101>> }

\* the texts rag_answer answers itself, once stripped and lowered:
\* "/start", "/help", "image", "/image"
LocalCommands ==
    { <<47, 115, 116, 97, 114, 116>>, <<47, 104, 101, 108, 112>>,
      <<105, 109, 97, 103, 101>>, <<47, 105, 109, 97, 103, 101>> }

\* rag_answer (gradio mode): a blank query and the local commands are
\* answered without the pipeline
RagAnswer(text, fault, llm) ==
    /\ Serving
    /\ front.mode = "gradio"
    /\ LET query == Strip(text)
       IN  IF query = <<>> \/ Lower(query) \in LocalCommands
           THEN UNCHANGED <<cacheVars, front>>
           ELSE LET r == run_rag_pipeline(cache, rows, tableExists, query,
                                          fault # "embedder", fault # "sqlite", llm)
                IN  /\ CacheAfter(query, r.cache)
                    /\ front' = [front EXCEPT !.indexCalls = @ + CallsTo("rag_answer")]
    /\ UNCHANGED <<chunkVars, concVars, storeVars, indexVars, callVars>>

RetrieveNext ==
    \E query \in Queries, k \in (0 - MaxK)..MaxK, fault \in Faults :
        RetrieveTopKCall(query, k, fault)

PipelineNext ==
    \E query \in Queries, fault \in Faults, llm \in LlmReplies :
        RunRagPipeline(query, fault, llm)

\* the first process on a fresh installation
Boot == run = 0 /\ StartProcess

\* index_documents, step by step
IndexSteps ==
    \/ IndexInitDb
    \/ IndexClearDb
    \/ \E dirExists \in BOOLEAN, listing \in DirListings : IndexCheckDir(dirExists, listing)
    \/ \E embedOk \in BOOLEAN : IndexFile(embedOk)
    \/ \E insertOk \in BOOLEAN : IndexInsert(insertOk)
    \/ IndexDone

(***************************************************************************)
(* Specifications.                                                          *)
(***************************************************************************)
\* the folders the front ends are run over: an empty one, one short document
FrontListings == { <<>>, <<FileA.name>> }

FrontIndexSteps ==
    \/ IndexInitDb
    \/ IndexClearDb
    \/ \E dirExists \in BOOLEAN, listing \in FrontListings : IndexCheckDir(dirExists, listing)
    \/ \E embedOk \in BOOLEAN : IndexFile(embedOk)
    \/ \E insertOk \in BOOLEAN : IndexInsert(insertOk)
    \/ IndexDone

\* /ask is run with an LLM that returns when it is called
AskNext ==
    \E user \in Users, args \in AskArgs, fault \in AskFaults,
       llm \in {reply \in LlmReplies : reply.ok} :
        Ask(user, args, fault, llm)

GradioNext ==
    \E text \in GradioInputs, fault \in Faults, llm \in LlmReplies : RagAnswer(text, fault, llm)

ChunkNext == \E text \in ChunkTexts, max_chars \in 1..MaxChunkArg : ChunkTextCall(text, max_chars)

\* chunk_text alone, on every bounded input
SpecChunk == Init /\ [][ChunkNext]_vars

\* get_query_embedding calls made one at a time
SpecCache == Init /\ [][CacheNext]_vars

\* get_query_embedding calls made by threads that interleave
SpecConc == Init /\ [][ThreadNext]_vars

Next == Boot \/ IndexSteps \/ PipelineNext

\* the program: a process that indexes the documents and then answers queries
Spec == Init /\ [][Next]_vars

RetrieveSpecNext == Boot \/ IndexSteps \/ RetrieveNext

\* retrieve_top_k called directly on the stores index_documents builds
SpecRetrieve == Init /\ [][RetrieveSpecNext]_vars

FrontNext == StartProcess \/ FrontIndexSteps \/ AskNext \/ GradioNext

\* the program behind its front ends: processes started one after the other,
\* each in telegram or gradio mode, indexing and then handling requests
SpecFront == Init /\ [][FrontNext]_vars

IndexNext == StartProcess \/ IndexSteps

\* processes started one after the other over the same database file, each
\* running index_documents
SpecIndex == Init /\ [][IndexNext]_vars

(***************************************************************************)
(* Claims.                                                                  *)
(***************************************************************************)
\* C1: after any sequence of get_query_embedding calls made one at a time the
\* cache holds at most MAX_QUERY_CACHE_SIZE entries (under distinct keys).
C1_CacheBounded ==
    /\ Len(cache) <= MAX_QUERY_CACHE_SIZE
    /\ Cardinality(DictKeys(cache)) = Len(cache)

\* more than MAX_QUERY_CACHE_SIZE insertions were made and the cache is full
C1_Witness ==
    /\ Len(inserted) > MAX_QUERY_CACHE_SIZE
    /\ Len(cache) = MAX_QUERY_CACHE_SIZE

\* C2: a miss on a full cache evicts exactly the entry inserted earliest and
\* appends the new one, so the cache always holds the most recently inserted
\* keys, in insertion order: after C+1 distinct keys, the last C of them.
C2_FifoEviction ==
    /\ KeysOf(cache) = LastN(inserted, MAX_QUERY_CACHE_SIZE)
    /\ (lastCall.called /\ ~lastCall.hit /\ ~lastCall.raised
          /\ Len(lastCall.before) = MAX_QUERY_CACHE_SIZE)
        => /\ Len(cache) = MAX_QUERY_CACHE_SIZE
           /\ KeysOf(cache) = Tail(KeysOf(lastCall.before)) \o <<Strip(lastCall.query)>>
           /\ \A i \in 1..(Len(cache) - 1) : cache[i] = lastCall.before[i + 1]

\* C+1 distinct keys were inserted, the last one by a miss on a full cache
C2_Witness ==
    /\ Len(inserted) = MAX_QUERY_CACHE_SIZE + 1
    /\ Cardinality({inserted[i] : i \in 1..Len(inserted)}) = MAX_QUERY_CACHE_SIZE + 1
    /\ lastCall.called /\ ~lastCall.hit /\ ~lastCall.raised
    /\ Len(lastCall.before) = MAX_QUERY_CACHE_SIZE
    /\ ~DictHas(cache, inserted[1])

\* C3 as stated: with calls that interleave, the cache never exceeds
\* MAX_QUERY_CACHE_SIZE, no call evicts an entry from a cache that has room, and
\* no call fails because the entry it reads or evicts was removed by another call.
C3_ConcurrentCallsSafe ==
    /\ Len(cache) <= MAX_QUERY_CACHE_SIZE
    /\ \A t \in Threads :
          /\ threads[t].pc \notin {"KeyError", "StopIteration"}
          /\ threads[t].evictedFrom \in {0} \cup {n \in Nat : n >= MAX_QUERY_CACHE_SIZE}

\* C4: chunk_text(T, M) with M > 0 returns ceil(len(T)/M) consecutive,
\* non-overlapping, non-empty substrings of T, each M long but possibly the last,
\* whose concatenation is T; none for the empty T.
C4_ChunksPartitionText ==
    ckCalled =>
        LET n == Len(ckText)
            count == (n + ckMax - 1) \div ckMax
        IN  /\ Len(ckOut) = count
            /\ (n = 0 => ckOut = <<>>)
            /\ Concat(ckOut) = ckText
            /\ \A i \in 1..Len(ckOut) :
                 /\ ckOut[i] = SubSeq(ckText, (i - 1) * ckMax + 1, Min(i * ckMax, n))
                 /\ Len(ckOut[i]) >= 1
                 /\ Len(ckOut[i]) <= ckMax
                 /\ (i < Len(ckOut) => Len(ckOut[i]) = ckMax)

\* a text cut into several chunks, the last one shorter than max_chars
C4_Witness ==
    /\ ckCalled
    /\ Len(ckOut) >= 2
    /\ Len(ckOut[Len(ckOut)]) < ckMax
    /\ Len(ckOut[1]) = ckMax

\* the scored chunks a query can be answered from: the stored rows scored
\* against the embedding of the stripped query
AllScored(query) == Scored(EmbedModel(Strip(query)), load_all_chunks(rows))

CountIn(seq, x) == Cardinality({i \in 1..Len(seq) : seq[i] = x})

\* result holds the Len(result) highest-scoring entries of all, best first
IsTopOf(result, all) ==
    /\ \A i \in 1..(Len(result) - 1) : result[i].score >= result[i + 1].score
    /\ \A i \in 1..Len(result) : CountIn(result, result[i]) <= CountIn(all, result[i])
    /\ result # <<>> =>
         \A j \in 1..Len(all) :
            all[j].score > result[Len(result)].score
               => CountIn(result, all[j]) = CountIn(all, all[j])

\* C5 as stated, for every integer k: the result of retrieve_top_k is ordered by
\* non-increasing score, has length at most k and at most N, holds the k
\* highest-scoring chunks when N >= k and all N chunks when N < k, and is empty on
\* an empty store.
C5_AnyK ==
    (lastTopK.called /\ ~lastTopK.raised) =>
        LET all == AllScored(lastTopK.query)
            result == lastTopK.result
        IN  /\ IsTopOf(result, all)
            /\ Len(result) <= lastTopK.k
            /\ Len(result) <= Len(all)
            /\ (Len(all) >= lastTopK.k => Len(result) = lastTopK.k)
            /\ (Len(all) < lastTopK.k => Len(result) = Len(all))
            /\ (all = <<>> => result = <<>>)

\* C5 amended, for every integer k >= 0: the same.
C5_NonNegativeK ==
    (lastTopK.called /\ ~lastTopK.raised /\ lastTopK.k >= 0) =>
        LET all == AllScored(lastTopK.query)
            result == lastTopK.result
        IN  /\ IsTopOf(result, all)
            /\ Len(result) <= lastTopK.k
            /\ Len(result) <= Len(all)
            /\ (Len(all) >= lastTopK.k => Len(result) = lastTopK.k)
            /\ (Len(all) < lastTopK.k => Len(result) = Len(all))
            /\ (all = <<>> => result = <<>>)

\* more chunks stored than asked for, and the k best are not the first k stored
C5_Witness ==
    /\ lastTopK.called /\ ~lastTopK.raised
    /\ lastTopK.k > 0
    /\ Len(rows) > lastTopK.k
    /\ Len(lastTopK.result) = lastTopK.k
    /\ lastTopK.result # SubSeq(AllScored(lastTopK.query), 1, lastTopK.k)
    /\ lastTopK.result[1].score > lastTopK.result[Len(lastTopK.result)].score

\* C6: when the store holds no rows, so that retrieval yields no chunk,
\* run_rag_pipeline returns the fixed "no documents indexed" message with no
\* citation and makes no LLM call.
C6_EmptyStoreShortCut ==
    (lastRun.called /\ lastRun.fault = "none" /\ rows = <<>>) =>
        /\ ~lastRun.raised
        /\ lastRun.top_chunks = <<>>
        /\ lastRun.answer = NoDocumentsMessage
        /\ lastRun.sources_lines = <<>>
        /\ lastRun.llmCalls = 0

\* a query answered over an empty store, with an LLM that would have replied
C6_Witness ==
    /\ lastRun.called /\ lastRun.fault = "none" /\ rows = <<>>
    /\ lastRun.llm = "ok"
    /\ idx.dirExists

\* C7: when retrieval yields at least one chunk and the LLM call raises,
\* run_rag_pipeline returns the fixed error message with no citation and no
\* exception escapes it.
C7_LlmFailureIsolated ==
    (lastRun.called /\ lastRun.fault = "none" /\ rows # <<>> /\ lastRun.llm = "raises") =>
        /\ ~lastRun.raised
        /\ lastRun.top_chunks # <<>>
        /\ lastRun.llmCalls = 1
        /\ lastRun.answer = LlmErrorMessage
        /\ lastRun.sources_lines = <<>>

\* chunks were retrieved and the LLM call raised
C7_Witness ==
    /\ lastRun.called /\ lastRun.fault = "none" /\ lastRun.llm = "raises"
    /\ Len(lastRun.top_chunks) = TOP_K
    /\ ~lastRun.raised

\* C8 as stated: a failure of the embedder or of the store read during
\* run_rag_pipeline ends in a message returned to the front end, never in an
\* exception that escapes run_rag_pipeline.
C8_RetrievalFailureReported ==
    (lastRun.called /\ lastRun.fault # "none") =>
        /\ ~lastRun.raised
        /\ lastRun.answer # <<>>

\* the (doc_name, chunk_text) of the rows, in storage order
Content(rs) == [i \in 1..Len(rs) |-> <<rs[i].doc_name, rs[i].chunk_text>>]

\* the header-prefixed chunks of one document
DocRows(name) ==
    LET e == PathOf(name)
        n == Len(e.text)
    IN  IF ~e.isFile \/ ~e.decodable \/ Suffix(name) \notin IndexedSuffixes THEN <<>>
        ELSE [i \in 1..((n + DEFAULT_MAX_CHARS - 1) \div DEFAULT_MAX_CHARS) |->
                <<name, Header(name)
                        \o SubSeq(e.text, (i - 1) * DEFAULT_MAX_CHARS + 1,
                                  Min(i * DEFAULT_MAX_CHARS, n))>>]

\* the rows a complete index run over the listing stores
RECURSIVE ExpectedRows(_)
ExpectedRows(listing) ==
    IF listing = <<>> THEN <<>>
    ELSE DocRows(Head(listing)) \o ExpectedRows(Tail(listing))

IsPrefix(a, b) == Len(a) <= Len(b) /\ a = SubSeq(b, 1, Len(a))

\* C9: once index_documents has cleared the table, no row written before the
\* clear is in it: the rows are a prefix of the header-prefixed chunks of the
\* indexed documents of the folder, all of them after a run that completed (a
\* second run over unchanged documents stores the same rows once), some or
\* none of them after a run that failed.
C9_RebuiltFromScratch ==
    idx.pc \in {"exists", "loop", "done", "failed"} =>
        /\ \A i \in 1..Len(rows) : rows[i].writtenBy = run
        /\ IsPrefix(Content(rows), ExpectedRows(idx.listing))
        /\ (idx.pc = "done" => Content(rows) = ExpectedRows(idx.listing))

\* a later process has rebuilt an index that held rows, and holds rows again
C9_Witness ==
    /\ run >= 2
    /\ idx.pc = "done"
    /\ idx.hadRows > 0
    /\ Len(rows) >= 2

\* C10: when the docs folder does not exist, index_documents returns without
\* raising and the table is empty, whatever it held before.
C10_MissingFolderLeavesEmptyStore ==
    (~idx.dirExists /\ idx.pc \notin {"init_db", "clear_db", "exists"}) =>
        /\ idx.pc = "done"
        /\ rows = <<>>

\* the folder was missing when a later process indexed over a table with rows
C10_Witness ==
    /\ ~idx.dirExists
    /\ idx.pc = "done"
    /\ idx.hadRows > 0

\* the i-th piece of max_chars characters of a text, cut where the text is
\* cut every max_chars characters
PieceOf(text, i) ==
    SubSeq(text, (i - 1) * DEFAULT_MAX_CHARS + 1, Min(i * DEFAULT_MAX_CHARS, Len(text)))

PiecesOf(text) ==
    {PieceOf(text, i) : i \in 1..((Len(text) + DEFAULT_MAX_CHARS - 1) \div DEFAULT_MAX_CHARS)}

\* C11: in every state of the store, every row's text is not empty and is the
\* header "[DOC: <doc_name>]\n" of the row's own document, once, followed by a
\* chunk of that document that is not empty and has at most 500 characters.
C11_RowsAreHeaderThenChunk ==
    \A i \in 1..Len(rows) :
        LET text == rows[i].chunk_text
            h == Header(rows[i].doc_name)
            body == SubSeq(text, Len(h) + 1, Len(text))
        IN  /\ Len(text) > 0
            /\ Len(text) > Len(h)
            /\ SubSeq(text, 1, Len(h)) = h
            /\ Len(body) >= 1
            /\ Len(body) <= DEFAULT_MAX_CHARS
            /\ body \in PiecesOf(PathOf(rows[i].doc_name).text)

\* a document of 501 characters is stored as a row whose chunk has 500
\* characters and a row whose chunk has one
C11_Witness ==
    /\ idx.pc = "done"
    /\ \E i, j \in 1..Len(rows) :
        /\ rows[i].doc_name = rows[j].doc_name
        /\ Len(rows[i].chunk_text) = Len(Header(rows[i].doc_name)) + DEFAULT_MAX_CHARS
        /\ Len(rows[j].chunk_text) = Len(Header(rows[j].doc_name)) + 1

\* C12: embed_text never receives an empty list of texts or an empty text,
\* while the documents are indexed, the files with no content included.
C12_EmbedderNeverGetsEmptyInput ==
    \A i \in 1..Len(idx.embedCalls) :
        /\ idx.embedCalls[i] # <<>>
        /\ \A j \in 1..Len(idx.embedCalls[i]) : idx.embedCalls[i][j] > 0

\* C13: a call of get_query_embedding that misses calls the embedder once, on
\* the trimmed query, and when the embedder returns stores the vector under
\* the trimmed query and returns it; the keys are trimmed and distinct, so a
\* query whose trimmed text is cached is a hit whatever whitespace surrounds it.
C13_MissStoresUnderTrimmedQuery ==
    /\ \A i \in 1..Len(cache) : cache[i].key = Strip(cache[i].key)
    /\ \A i, j \in 1..Len(cache) : cache[i].key = cache[j].key => i = j
    /\ lastCall.called =>
         LET q == Strip(lastCall.query)
         IN  /\ lastCall.hit = DictHas(lastCall.before, q)
             /\ ~lastCall.hit => lastCall.embedArgs = << <<q>> >>
             /\ (~lastCall.hit /\ ~lastCall.raised) =>
                    /\ DictHas(cache, q)
                    /\ DictGet(cache, q) = lastCall.value
                    /\ cache[Len(cache)].key = q
                    /\ Len(cache) <= Len(lastCall.before) + 1

\* a query with surrounding whitespace hits the only entry of the cache
C13_Witness ==
    /\ lastCall.called
    /\ lastCall.hit
    /\ lastCall.query # Strip(lastCall.query)
    /\ Len(cache) = 1
    /\ Len(inserted) = 1

\* C15: a call of get_query_embedding that hits does not call the embedder and
\* leaves the cache as it was, the order of its keys included: the keys stay
\* in the order of their insertion, which is the order of eviction.
C15_HitLeavesCacheUnchanged ==
    /\ KeysOf(cache) = LastN(inserted, Len(cache))
    /\ (lastCall.called /\ lastCall.hit) =>
         /\ lastCall.embedArgs = <<>>
         /\ ~lastCall.raised
         /\ cache = lastCall.before
         /\ lastCall.value = DictGet(lastCall.before, Strip(lastCall.query))

\* the oldest key of a full cache has just been read and is still the first
C15_Witness ==
    /\ lastCall.called
    /\ lastCall.hit
    /\ Len(cache) = MAX_QUERY_CACHE_SIZE
    /\ cache[1].key = Strip(lastCall.query)

\* C20: the vector get_query_embedding returns is the one the embedder
\* returns for the trimmed query, on a hit as on a miss, and every cached
\* vector is the embedder's vector of its key, whatever was evicted before.
C20_CacheTransparent ==
    /\ \A i \in 1..Len(cache) : cache[i].value = embed_text(<<cache[i].key>>)[1]
    /\ (lastCall.called /\ ~lastCall.raised) =>
         lastCall.value = embed_text(<<Strip(lastCall.query)>>)[1]

\* a query evicted earlier has been embedded again, asked with whitespace around it
C20_Witness ==
    /\ lastCall.called
    /\ ~lastCall.hit
    /\ ~lastCall.raised
    /\ lastCall.query # Strip(lastCall.query)
    /\ \E i \in 1..(Len(inserted) - 1) : inserted[i] = Strip(lastCall.query)

\* C14: when the store holds chunks, retrieval succeeds and the LLM call
\* returns, run_rag_pipeline has made one LLM call, returns the completion's
\* content with the surrounding whitespace removed, and returns one citation
\* line for each retrieved chunk, in the order of the retrieved chunks (best
\* score first), so min(TOP_K, number of stored chunks) lines.
C14_SuccessfulRun ==
    (lastRun.called /\ lastRun.fault = "none" /\ rows # <<>> /\ lastRun.llm = "ok") =>
        /\ ~lastRun.raised
        /\ lastRun.llmCalls = 1
        /\ lastRun.answer = Strip(lastRun.content)
        /\ IsTopOf(lastRun.top_chunks, AllScored(lastRun.query))
        /\ Len(lastRun.top_chunks) = Min(TOP_K, Len(rows))
        /\ Len(lastRun.sources_lines) = Len(lastRun.top_chunks)
        /\ \A i \in 1..Len(lastRun.sources_lines) :
              LET line == lastRun.sources_lines[i]
                  start == <<45, 32>> \o lastRun.top_chunks[i].doc_name
                           \o <<32, 40, 115, 99, 111, 114, 101, 61>>
                           \o FormatScore(lastRun.top_chunks[i].score) \o <<41>>
              IN  /\ Len(line) > Len(start)
                  /\ SubSeq(line, 1, Len(start)) = start
                  /\ line = SourceLine(lastRun.top_chunks[i])

\* more chunks stored than TOP_K, the best of them not all of one score, and
\* a completion that came with whitespace around it
C14_Witness ==
    /\ lastRun.called /\ lastRun.fault = "none" /\ lastRun.llm = "ok"
    /\ lastRun.content # Strip(lastRun.content)
    /\ Len(rows) > TOP_K
    /\ Len(lastRun.sources_lines) = TOP_K
    /\ lastRun.top_chunks[1].score > lastRun.top_chunks[TOP_K].score

\* the text between the quotes of a citation line of a chunk
QuotedPart(line, chunk) ==
    LET start == <<45, 32>> \o chunk.doc_name \o <<32, 40, 115, 99, 111, 114, 101, 61>>
                 \o FormatScore(chunk.score) \o <<41, 32, 8594, 32, 34>>
    IN  SubSeq(line, Len(start) + 1, Len(line) - 1)

\* C19: the snippet of each citation line is the chunk's stored text with
\* every newline replaced by a space, whole when that has at most 120
\* characters, and its first 120 characters followed by "..." when it has more.
C19_SnippetOfCitation ==
    (lastRun.called /\ ~lastRun.raised) =>
        \A i \in 1..Len(lastRun.sources_lines) :
            LET text == lastRun.top_chunks[i].chunk_text
                snippet == QuotedPart(lastRun.sources_lines[i], lastRun.top_chunks[i])
                n == Min(Len(text), SNIPPET_CHARS)
            IN  /\ lastRun.sources_lines[i][Len(lastRun.sources_lines[i])] = 34
                /\ Len(snippet) = IF Len(text) <= SNIPPET_CHARS THEN Len(text)
                                  ELSE SNIPPET_CHARS + 3
                /\ \A j \in 1..n :
                      snippet[j] = IF text[j] = NEWLINE THEN SPACE ELSE text[j]
                /\ \A j \in (n + 1)..Len(snippet) : snippet[j] = DOT

\* the citations of a chunk of exactly 120 characters with two newlines and
\* of a chunk of 121 characters
C19_Witness ==
    /\ lastRun.called /\ ~lastRun.raised
    /\ \E i, j \in 1..Len(lastRun.sources_lines) :
          /\ Len(lastRun.top_chunks[i].chunk_text) = SNIPPET_CHARS
          /\ Cardinality({p \in 1..SNIPPET_CHARS :
                             lastRun.top_chunks[i].chunk_text[p] = NEWLINE}) = 2
          /\ Len(lastRun.top_chunks[j].chunk_text) = SNIPPET_CHARS + 1

\* the place of row i among the rows, by score (highest first) and, for
\* equal scores, by id (lowest first)
RankOf(query, i) ==
    LET score(j) == cosine_sim(EmbedModel(Strip(query)), JsonLoads(rows[j].embedding))
    IN  1 + Cardinality({j \in 1..Len(rows) :
                            \/ score(j) > score(i)
                            \/ score(j) = score(i) /\ rows[j].id < rows[i].id})

\* the rows in that order, as retrieve_top_k returns a chunk
ByScoreThenId(query) ==
    [r \in 1..Len(rows) |->
        LET i == CHOOSE j \in 1..Len(rows) : RankOf(query, j) = r
        IN  [score |-> cosine_sim(EmbedModel(Strip(query)), JsonLoads(rows[i].embedding)),
             doc_name |-> rows[i].doc_name,
             chunk_text |-> rows[i].chunk_text]]

\* C16: the chunks retrieve_top_k returns are the first ones of the stored
\* chunks ordered by score, highest first, and by ascending id among the
\* chunks of equal score; the result is a function of the store and the query.
C16_TiesInIdOrder ==
    /\ \A i, j \in 1..Len(rows) : i < j => rows[i].id < rows[j].id
    /\ (lastTopK.called /\ ~lastTopK.raised) =>
          IsPrefix(lastTopK.result, ByScoreThenId(lastTopK.query))

\* two different chunks of the same score are returned next to each other
C16_Witness ==
    /\ lastTopK.called /\ ~lastTopK.raised
    /\ lastTopK.k > 0
    /\ \E i \in 1..(Len(lastTopK.result) - 1) :
          /\ lastTopK.result[i].score = lastTopK.result[i + 1].score
          /\ lastTopK.result[i].chunk_text # lastTopK.result[i + 1].chunk_text

\* C17: in a run of the program, in either mode, index_documents is called
\* once, by the start-up function, and has returned before any request is
\* handled; no second execution begins, so no two executions overlap.
C17_OneRebuildAtATime ==
    /\ front.indexCalls <= 1
    /\ run > 0 => front.indexCalls = 1
    /\ idx.pc \in {"init_db", "clear_db", "exists", "loop"} =>
          /\ cache = <<>>
          /\ \A u \in Users : front.handled[u] = <<>>

\* a process in gradio mode has answered a query after its one rebuild
C17_Witness ==
    /\ front.mode = "gradio"
    /\ idx.pc = "done"
    /\ front.indexCalls = 1
    /\ rows # <<>>
    /\ cache # <<>>

\* C18: after any sequence of /ask commands handled by a process, the history
\* of each user holds at most 3 turns and they are the last turns of that
\* user whose handler completed, in order; no turn of another user is in it.
C18_HistoryIsLastThreeTurns ==
    \A u \in Users :
        /\ Len(front.user_history[u]) <= HISTORY_MAXLEN
        /\ front.user_history[u] = LastN(front.handled[u], HISTORY_MAXLEN)

\* a user's fourth turn has evicted the first, which was a different
\* question, while another user's history holds one turn of its own
C18_Witness ==
    \E u, v \in Users :
        /\ u # v
        /\ Len(front.handled[u]) = HISTORY_MAXLEN + 1
        /\ front.handled[u][1] \notin {front.user_history[u][i] : i \in 1..HISTORY_MAXLEN}
        /\ Len(front.user_history[u]) = HISTORY_MAXLEN
        /\ Len(front.user_history[v]) = 1
        /\ front.user_history[v][1] # front.user_history[u][HISTORY_MAXLEN]
====
